---------------------------- MODULE Spec2Model ----------------------------
(***************************************************************************)
(* Model of the retrieval core of the personal knowledge assistant:        *)
(*   src/vector_db/faiss.py   FAISSHNSWStore (index + parallel arrays)     *)
(*   src/rag/retriever.py     Retriever.retrieve                           *)
(*   src/utils/faiss_utils.py FAISSUtils.load_faiss_index                  *)
(*   src/ingestion/loader.py  DocumentLoader.load_documents                *)
(*                                                                         *)
(* Conventions.  Python's None is the string "None".  A metadata dict is   *)
(* a TLA+ record; m.get(key) is Get(m, key).  Record ids are 0-based as in *)
(* the code; the sequence position of id i is i + 1.  A vector is a tuple  *)
(* of integers counted in steps of 1/Unit, so a squared L2 distance is an  *)
(* integer counted in steps of 1/Scale.  A float computed by the code is a *)
(* rational <<numerator, denominator>> rounded to MantBits significant     *)
(* bits (round to nearest, ties to even).  search_time_ms, a wall-clock    *)
(* reading that no operation reads back, is left out of the hits.          *)
(***************************************************************************)
EXTENDS Integers, Sequences, FiniteSets, TLC

VARIABLES
    index,            \* self.index: [d, vecs, efSearch], the faiss HNSW index
    metadata,         \* self.metadata
    chunk_texts,      \* self.chunk_texts
    dimension,        \* self.dimension
    M,                \* self.M
    ef_construction,  \* self.ef_construction
    ef_search,        \* self.ef_search
    is_trained,       \* self.is_trained
    disk,             \* vector_db/<name>.index and vector_db/<name>_metadata.json
    saved,            \* the fields of the instance that ran save_index last, as they were
    last,             \* the last completed call: its arguments and what it returned
    pc,               \* per thread: the line of search it is about to run
    frame,            \* per thread: the arguments and locals of its search
    ef_at_rest        \* index.hnsw.efSearch before the calls now running, or last run, began

fields == <<index, metadata, chunk_texts, dimension, M, ef_construction, ef_search,
            is_trained>>
threads == <<pc, frame, ef_at_rest>>
vars == <<index, metadata, chunk_texts, dimension, M, ef_construction, ef_search,
          is_trained, disk, saved, last, pc, frame, ef_at_rest>>

--------------------------------------------------------------------------
(* Bounds of the model. *)

\* most records a store may hold
MaxTotal == 3
\* largest k of a search
MaxK == 2
\* significant bits of a modelled float
MantBits == 3
\* fractional bits of a vector component: components count steps of 1/Unit
FracBits == 2

None == "None"
Infinity == "inf"

\* a dict argument that is None, and the empty dict
NoDict == [None |-> TRUE]
EmptyDict == [key \in {} |-> None]
IsNone(dict) == DOMAIN dict = {"None"}

--------------------------------------------------------------------------
(* The data the calls are made with. *)

MetaTech == [chunk_id |-> 1, domain |-> "technology", intent |-> [is_definition |-> TRUE]]
MetaSci  == [chunk_id |-> 2, domain |-> "science"]

\* a chunk as embed_with_metadata returns it
ChunkTech == [embedding |-> <<0, 0>>, metadata |-> MetaTech, text |-> "alpha"]
ChunkSci  == [embedding |-> <<1, 0>>, metadata |-> MetaSci,  text |-> "beta"]
Chunks == { ChunkTech, ChunkSci }

\* the rows of one add_embeddings batch
BatchSizes == 0..2

\* query embeddings of the index's dimension
Queries == { <<1, 0>>, <<2, 0>> }

\* an embedding of another dimension than the index's
WrongDimVector == <<0, 0, 0>>

Ks == 1..MaxK

\* max_distance arguments: 1/Scale, and the default 10.0
MaxDistances == { <<1, 16>>, <<10, 1>> }

\* metadata_filters arguments
Filters == { NoDict, EmptyDict, [domain |-> "technology"],
             [domain |-> "science", audience |-> "general"] }

\* query_intent arguments
Intents == { NoDict, [is_definition |-> TRUE, is_howto |-> FALSE] }

\* chunk_id arguments
ChunkIds == { 1, 2, 7 }

\* the threads that may call search on the one store
Threads == { "t1", "t2" }

\* the constructor arguments the first store is built with, and those of
\* a store built to load an index into (FAISSHNSWStore()'s defaults, scaled
\* like the rest)
BuildConfig == [dimension |-> 2, M |-> 4, ef_construction |-> 8, ef_search |-> 3]
DefaultConfig == [dimension |-> 3, M |-> 5, ef_construction |-> 9, ef_search |-> 5]
Configs == { BuildConfig, DefaultConfig }

--------------------------------------------------------------------------
(* Python and numpy helpers.  An operator that uses a computed value more  *)
(* than once takes it as a parameter.                                      *)

Max(a, b) == IF a >= b THEN a ELSE b
Min(a, b) == IF a <= b THEN a ELSE b

\* dict.get(key), with None for a missing key
Get(m, key) == IF key \in DOMAIN m THEN m[key] ELSE None

\* faulty variants of list.extend: one drops the new elements, one drops
\* the old ones
KeepList(list, more) == list
ReplaceList(list, more) == more

\* list.extend
Extend(list, more) == list \o more

\* list[:n]
Take(list, n) == SubSeq(list, 1, Min(n, Len(list)))

\* the list without its element at position i
RemoveAt(list, i) == [j \in 1..(Len(list) - 1) |-> IF j < i THEN list[j] ELSE list[j + 1]]

RECURSIVE Pow2(_)
Pow2(n) == IF n = 0 THEN 1 ELSE 2 * Pow2(n - 1)

RECURSIVE Gcd(_, _)
Gcd(a, b) == IF b = 0 THEN a ELSE Gcd(b, a % b)

DivideBoth(n, d, g) == <<n \div g, d \div g>>

\* the rational n / d in lowest terms
Rat(n, d) == IF n = 0 THEN <<0, 1>> ELSE DivideBoth(n, d, Gcd(n, d))

Halved(r) == Rat(r[1], 2 * r[2])
Doubled(r) == Rat(2 * r[1], r[2])

\* steps per 1.0 of a vector component, and of a squared distance
Unit == Pow2(FracBits)
Scale == Unit * Unit

\* the integer nearest to n / d, a tie going to the even one
RoundHalfEven(n, d) ==
    LET q == n \div d
        r == n % d
    IN  IF 2 * r < d THEN q
        ELSE IF 2 * r > d THEN q + 1
        ELSE IF q % 2 = 0 THEN q ELSE q + 1

\* the float nearest to n / d (n >= 0, d > 0): MantBits significant bits
RECURSIVE FloatRound(_, _)
FloatRound(n, d) ==
    IF n = 0 THEN <<0, 1>>
    ELSE IF n < Pow2(MantBits - 1) * d THEN Halved(FloatRound(2 * n, d))
    ELSE IF n >= Pow2(MantBits) * d THEN Doubled(FloatRound(n, 2 * d))
    ELSE <<RoundHalfEven(n, d), 1>>

\* the greatest m in lo..hi with m * m * d <= n
RECURSIVE FloorSqrt(_, _, _, _)
FloorSqrt(n, d, lo, hi) ==
    IF lo = hi THEN lo
    ELSE IF ((lo + hi + 1) \div 2) * ((lo + hi + 1) \div 2) * d <= n
         THEN FloorSqrt(n, d, (lo + hi + 1) \div 2, hi)
         ELSE FloorSqrt(n, d, lo, ((lo + hi + 1) \div 2) - 1)

\* m or m + 1, whichever is nearer to the square root of n / d
RoundSqrt(n, d, m) ==
    IF \/ 4 * n > (2 * m + 1) * (2 * m + 1) * d
       \/ (4 * n = (2 * m + 1) * (2 * m + 1) * d /\ m % 2 = 1)
    THEN <<m + 1, 1>> ELSE <<m, 1>>

\* the float nearest to the square root of n / d (n >= 0, d > 0)
RECURSIVE FloatSqrt(_, _)
FloatSqrt(n, d) ==
    IF n = 0 THEN <<0, 1>>
    ELSE IF n < Pow2(2 * MantBits - 2) * d THEN Halved(FloatSqrt(4 * n, d))
    ELSE IF n >= Pow2(2 * MantBits) * d THEN Doubled(FloatSqrt(n, 4 * d))
    ELSE RoundSqrt(n, d, FloorSqrt(n, d, 0, Pow2(MantBits)))

\* comparisons of rationals with positive denominators
RatLt(a, b) == a[1] * b[2] < b[1] * a[2]
RatLe(a, b) == a[1] * b[2] <= b[1] * a[2]
RatEq(a, b) == a[1] * b[2] = b[1] * a[2]

\* the position in `left` of the least of `distances`, the first of equals
ArgMin(distances, left) ==
    CHOOSE i \in left : \A j \in left :
        \/ RatLt(distances[i], distances[j])
        \/ (distances[i] = distances[j] /\ i <= j)

\* np.argsort(distances): the positions by ascending distance, equal
\* distances in their order (the arrays are short)
RECURSIVE Argsort(_, _)
ArgsortFrom(distances, left, best) == <<best>> \o Argsort(distances, left \ {best})
Argsort(distances, left) ==
    IF left = {} THEN <<>> ELSE ArgsortFrom(distances, left, ArgMin(distances, left))

\* a sort key (n, x): an integer, then a float
KeyLt(a, b) == a[1] < b[1] \/ (a[1] = b[1] /\ RatLt(a[2], b[2]))

\* the position of the first of the elements with the greatest key
ArgMaxFirst(keys) ==
    CHOOSE i \in 1..Len(keys) :
        /\ \A j \in 1..Len(keys) : ~KeyLt(keys[i], keys[j])
        /\ \A j \in 1..(i - 1) : KeyLt(keys[j], keys[i])

\* list.sort(key=..., reverse=True) and sorted(..., reverse=True), keys[i]
\* being the key of list[i]: stable, so of the elements with the greatest
\* key the first comes first
RECURSIVE SortDescending(_, _)
SortDescendingFrom(list, keys, first) ==
    <<list[first]>> \o SortDescending(RemoveAt(list, first), RemoveAt(keys, first))
SortDescending(list, keys) ==
    IF list = <<>> THEN <<>> ELSE SortDescendingFrom(list, keys, ArgMaxFirst(keys))

--------------------------------------------------------------------------
(* The faiss index (faiss.IndexHNSWFlat with METRIC_L2), by its contract.  *)

\* faiss.IndexHNSWFlat(dimension, M, faiss.METRIC_L2) with efSearch set
NewIndex(d, efs) == [d |-> d, vecs |-> <<>>, efSearch |-> efs]

ntotal(idx) == Len(idx.vecs)

\* the number of columns of a non-empty 2-D array
Columns(embeddings) == Len(embeddings[1])

\* a faulty variant of index.add: no assertion on the dimension
IndexAddUnchecked(idx, embeddings) ==
    [raised |-> None, index |-> [idx EXCEPT !.vecs = @ \o embeddings]]

\* index.add(embeddings): the wrapper asserts that the array's second
\* dimension is the index's, then appends every row
IndexAdd(idx, embeddings) ==
    IF Columns(embeddings) # idx.d
    THEN [raised |-> "AssertionError", index |-> idx]
    ELSE [raised |-> None, index |-> [idx EXCEPT !.vecs = @ \o embeddings]]

RECURSIVE SumSquares(_, _, _)
SumSquares(a, b, i) ==
    IF i > Len(a) THEN 0
    ELSE (a[i] - b[i]) * (a[i] - b[i]) + SumSquares(a, b, i + 1)

\* METRIC_L2: the squared Euclidean distance
L2sqr(a, b) == Rat(SumSquares(a, b, 1), Scale)

\* the distance of every stored vector to q
AllDistances(idx, q) == [i \in 1..ntotal(idx) |-> L2sqr(idx.vecs[i], q)]

\* the slots of a search for the positions `order`, nearest first
Slots(distances, order, k) ==
    [raised    |-> None,
     distances |-> [i \in 1..k |-> IF i <= Len(order) THEN distances[order[i]]
                                   ELSE Infinity],
     indices   |-> [i \in 1..k |-> IF i <= Len(order) THEN order[i] - 1 ELSE -1]]

NearestSlots(distances, k) == Slots(distances, Argsort(distances, DOMAIN distances), k)

\* index.search(query, k): k slots, the nearest records first by ascending
\* distance (equal distances in insertion order), the slots past the last
\* record filled with label -1.  The query must have the index's dimension.
IndexSearch(idx, q, k) ==
    IF Len(q) # idx.d
    THEN [raised |-> "AssertionError", distances |-> <<>>, indices |-> <<>>]
    ELSE NearestSlots(AllDistances(idx, q), k)

\* index.reconstruct(i)
Reconstruct(idx, i) == idx.vecs[i + 1]

--------------------------------------------------------------------------
(* FAISSHNSWStore *)

\* a faulty variant of the score: 1.0 + distance
SumOnly(distance) == FloatRound(distance[2] + distance[1], distance[2])

Reciprocal(x) == FloatRound(x[2], x[1])

\* 1.0 / (1.0 + distance) in floating point
SimilarityScore(distance) ==
    Reciprocal(FloatRound(distance[2] + distance[1], distance[2]))

\* one round of search's loop, `rest` being what the later rounds give: the
\* hits, or IndexError when a text is missing
Hit(md, ct, distance, idx, i, rest) ==
    IF idx # -1 /\ idx < Len(md)
    THEN IF idx >= Len(ct) THEN [raised |-> "IndexError", hits |-> <<>>]
         ELSE IF rest.raised # None THEN rest
         ELSE [raised |-> None,
               hits   |-> << [rank     |-> i,
                              distance |-> distance,
                              score    |-> SimilarityScore(distance),
                              text     |-> ct[idx + 1],
                              metadata |-> md[idx + 1]] >> \o rest.hits]
    ELSE rest

\* search's loop over the slots i.. of (distances, indices)
RECURSIVE Hits(_, _, _, _, _)
Hits(md, ct, distances, indices, i) ==
    IF i > Len(indices) THEN [raised |-> None, hits |-> <<>>]
    ELSE Hit(md, ct, distances[i], indices[i], i,
             Hits(md, ct, distances, indices, i + 1))

\* lines 51-63 of search, after efSearch is restored
SearchResults(res, original_ef_search, widened) ==
    [raised |-> res.raised, hits |-> res.hits,
     efSearch |-> original_ef_search, efUsed |-> widened]

\* lines 46-63 of search
SearchFound(md, ct, found, original_ef_search, widened) ==
    IF found.raised # None
    THEN [raised |-> found.raised, hits |-> <<>>, efSearch |-> widened,
          efUsed |-> widened]
    ELSE SearchResults(Hits(md, ct, found.distances, found.indices, 1),
                       original_ef_search, widened)

\* a faulty variant of line 43: efSearch is set to self.ef_search
NotWidened(efs, k) == efs

\* line 43 of search: max(self.ef_search, k * 2)
Widened(efs, k) == Max(efs, k * 2)

\* search(query_embedding, k): what it returns or raises, the efSearch the
\* graph query ran with and the efSearch it leaves in the index
Search(idx, md, ct, efs, q, k) ==
    IF ntotal(idx) = 0
    THEN [raised |-> None, hits |-> <<>>, efSearch |-> idx.efSearch, efUsed |-> 0]
    ELSE SearchFound(md, ct,
                     IndexSearch([idx EXCEPT !.efSearch = Widened(efs, k)], q, k),
                     idx.efSearch, Widened(efs, k))

\* lines 33-34 of add_embeddings, after index.add
Added(added, md, ct, trained, metadata_list, texts) ==
    IF added.raised # None
    THEN [raised |-> added.raised, index |-> added.index, metadata |-> md,
          chunk_texts |-> ct, is_trained |-> trained]
    ELSE [raised |-> None, index |-> added.index,
          metadata |-> Extend(md, metadata_list),
          chunk_texts |-> Extend(ct, texts), is_trained |-> TRUE]

\* add_embeddings(embeddings, metadata_list, chunk_texts): what it raises
\* and the fields it leaves
AddEmbeddings(idx, md, ct, trained, embeddings, metadata_list, texts) ==
    IF Len(embeddings) = 0
    THEN [raised |-> None, index |-> idx, metadata |-> md, chunk_texts |-> ct,
          is_trained |-> trained]
    ELSE Added(IndexAdd(idx, embeddings), md, ct, trained, metadata_list, texts)

\* a faulty variant of the distance gate: every result passes
NotGated(results, max_distance) == results

\* a faulty variant of the threshold: a hit at exactly max_distance is dropped
RECURSIVE StrictlyWithin(_, _)
StrictlyWithin(results, max_distance) ==
    IF results = <<>> THEN <<>>
    ELSE (IF RatLt(Head(results).distance, max_distance) THEN <<Head(results)>> ELSE <<>>)
         \o StrictlyWithin(Tail(results), max_distance)

\* [r for r in results if r['distance'] <= max_distance]
RECURSIVE WithinDistance(_, _)
WithinDistance(results, max_distance) ==
    IF results = <<>> THEN <<>>
    ELSE (IF RatLe(Head(results).distance, max_distance) THEN <<Head(results)>> ELSE <<>>)
         \o WithinDistance(Tail(results), max_distance)

\* search_with_threshold(query_embedding, k, max_distance)
Thresholded(r, max_distance) ==
    [raised |-> r.raised, hits |-> WithinDistance(r.hits, max_distance),
     efSearch |-> r.efSearch]

SearchWithThreshold(idx, md, ct, efs, q, k, max_distance) ==
    Thresholded(Search(idx, md, ct, efs, q, k), max_distance)

\* one row of batch_search's result in front of the later rows
BatchRow(row, rest) ==
    IF row.raised # None THEN [raised |-> row.raised, rows |-> <<>>]
    ELSE IF rest.raised # None THEN rest
    ELSE [raised |-> None, rows |-> <<row.hits>> \o rest.rows]

QueryHits(md, ct, found) == Hits(md, ct, found.distances, found.indices, 1)

\* batch_search's loop over the rows of (distances, indices)
RECURSIVE BatchRows(_, _, _, _, _)
BatchRows(idx, md, ct, queries, k) ==
    IF queries = <<>> THEN [raised |-> None, rows |-> <<>>]
    ELSE BatchRow(QueryHits(md, ct, IndexSearch(idx, Head(queries), k)),
                  BatchRows(idx, md, ct, Tail(queries), k))

BatchResults(res, original_ef_search) ==
    [raised |-> res.raised, hits |-> res.rows, efSearch |-> original_ef_search]

\* batch_search(query_embeddings, k): one list of hits per query
BatchSearch(idx, md, ct, efs, queries, k) ==
    IF ntotal(idx) = 0
    THEN [raised |-> None, hits |-> <<>>, efSearch |-> idx.efSearch]
    ELSE IF \E i \in 1..Len(queries) : Len(queries[i]) # idx.d
    THEN [raised |-> "AssertionError", hits |-> <<>>, efSearch |-> Widened(efs, k)]
    ELSE BatchResults(BatchRows(idx, md, ct, queries, k), idx.efSearch)

\* all(m.get(key) == val for key, val in metadata_filters.items())
MatchesAll(m, metadata_filters) ==
    \A key \in DOMAIN metadata_filters : Get(m, key) = metadata_filters[key]

\* [i for i, m in enumerate(self.metadata) if all(...)], from id i on
RECURSIVE CandidateIndices(_, _, _)
CandidateIndices(md, metadata_filters, i) ==
    IF i >= Len(md) THEN <<>>
    ELSE (IF MatchesAll(md[i + 1], metadata_filters) THEN <<i>> ELSE <<>>)
         \o CandidateIndices(md, metadata_filters, i + 1)

\* np.linalg.norm(candidate_embeddings - query, axis=1)
Norms(idx, q, candidate_indices) ==
    [c \in 1..Len(candidate_indices) |->
        FloatSqrt(SumSquares(Reconstruct(idx, candidate_indices[c]), q, 1), Scale)]

\* lines 118-130 of search_with_metadata
MetadataHits(idx, md, ct, candidate_indices, distances, sorted_indices) ==
    IF \E r \in 1..Len(sorted_indices) :
           candidate_indices[sorted_indices[r]] >= Len(ct)
    THEN [raised |-> "IndexError", hits |-> <<>>, efSearch |-> idx.efSearch]
    ELSE [raised |-> None,
          hits |-> [r \in 1..Len(sorted_indices) |->
                       [rank     |-> r,
                        distance |-> distances[sorted_indices[r]],
                        score    |-> SimilarityScore(distances[sorted_indices[r]]),
                        text     |-> ct[candidate_indices[sorted_indices[r]] + 1],
                        metadata |-> md[candidate_indices[sorted_indices[r]] + 1]]],
          efSearch |-> idx.efSearch]

\* lines 116-130 of search_with_metadata
MetadataRanked(idx, md, ct, candidate_indices, distances, k) ==
    MetadataHits(idx, md, ct, candidate_indices, distances,
                 Take(Argsort(distances, DOMAIN distances), k))

\* lines 107-130 of search_with_metadata
MetadataCandidates(idx, md, ct, q, candidate_indices, k) ==
    IF Len(candidate_indices) = 0
    THEN [raised |-> None, hits |-> <<>>, efSearch |-> idx.efSearch]
    ELSE IF \E c \in 1..Len(candidate_indices) : candidate_indices[c] >= ntotal(idx)
    THEN [raised |-> "RuntimeError", hits |-> <<>>, efSearch |-> idx.efSearch]
    ELSE IF Len(q) # idx.d
    THEN [raised |-> "ValueError", hits |-> <<>>, efSearch |-> idx.efSearch]
    ELSE MetadataRanked(idx, md, ct, candidate_indices,
                        Norms(idx, q, candidate_indices), k)

WithoutEfUsed(r) == [raised |-> r.raised, hits |-> r.hits, efSearch |-> r.efSearch]

\* search_with_metadata(query_embedding, metadata_filters, k)
SearchWithMetadata(idx, md, ct, efs, q, metadata_filters, k) ==
    IF IsNone(metadata_filters)
    THEN WithoutEfUsed(Search(idx, md, ct, efs, q, k))
    ELSE MetadataCandidates(idx, md, ct, q,
                            CandidateIndices(md, metadata_filters, 0), k)

\* intent_score(meta, intent): the keys wanted by the query that are set in
\* the metadata's 'intent' sub-map
intent_score(meta, intent) ==
    Cardinality({ key \in DOMAIN intent :
                    /\ intent[key] = TRUE
                    /\ "intent" \in DOMAIN meta
                    /\ key \in DOMAIN meta.intent
                    /\ meta.intent[key] = TRUE })

\* a faulty variant of the sort key: the score alone
ScoreKeys(scored_results) ==
    [i \in 1..Len(scored_results) |-> <<0, scored_results[i].score>>]

\* (intent_score, score) of every result
IntentKeys(scored_results) ==
    [i \in 1..Len(scored_results) |->
        <<scored_results[i].intent_score, scored_results[i].score>>]

\* lines 151-152 of search_with_intent
IntentRanked(scored_results, k, efSearch) ==
    [raised |-> None,
     hits |-> Take(SortDescending(scored_results, IntentKeys(scored_results)), k),
     efSearch |-> efSearch]

\* lines 139-152 of search_with_intent
IntentScored(base, query_intent, k) ==
    IF base.raised # None
    THEN [raised |-> base.raised, hits |-> <<>>, efSearch |-> base.efSearch]
    ELSE IF IsNone(query_intent) /\ base.hits # <<>>
    THEN [raised |-> "AttributeError", hits |-> <<>>, efSearch |-> base.efSearch]
    ELSE IntentRanked([i \in 1..Len(base.hits) |->
                          [rank     |-> base.hits[i].rank,
                           distance |-> base.hits[i].distance,
                           score    |-> base.hits[i].score,
                           text     |-> base.hits[i].text,
                           metadata |-> base.hits[i].metadata,
                           intent_score |-> intent_score(base.hits[i].metadata,
                                                         query_intent)]],
                      k, base.efSearch)

\* search_with_intent(query_embedding, query_intent, k)
SearchWithIntent(idx, md, ct, efs, q, query_intent, k) ==
    IntentScored(Search(idx, md, ct, efs, q, k * 2), query_intent, k)

\* a faulty variant of the lookup: id 0, whatever the chunk_id
FirstIdx(md, chunk_id, i) == 0

\* the first id whose metadata has the chunk_id, or -1 for None
RECURSIVE TargetIdx(_, _, _)
TargetIdx(md, chunk_id, i) ==
    IF i >= Len(md) THEN -1
    ELSE IF "chunk_id" \in DOMAIN md[i + 1] /\ md[i + 1].chunk_id = chunk_id THEN i
    ELSE TargetIdx(md, chunk_id, i + 1)

\* lines 160-164 of find_similar_by_id
SimilarTo(idx, md, ct, efs, target_idx, k) ==
    IF target_idx = -1
    THEN [raised |-> None, hits |-> <<>>, efSearch |-> idx.efSearch]
    ELSE IF target_idx >= ntotal(idx)
    THEN [raised |-> "RuntimeError", hits |-> <<>>, efSearch |-> idx.efSearch]
    ELSE WithoutEfUsed(Search(idx, md, ct, efs, Reconstruct(idx, target_idx), k))

\* find_similar_by_id(chunk_id, k)
FindSimilarById(idx, md, ct, efs, chunk_id, k) ==
    SimilarTo(idx, md, ct, efs, TargetIdx(md, chunk_id, 0), k)

\* get_index_stats(), without the graph's max_level and entry_point
GetIndexStats(idx, dim, m, efc, efs) ==
    [total_vectors |-> ntotal(idx), dimension |-> dim,
     distance_metric |-> "Euclidean (L2)", M |-> m,
     ef_construction |-> efc, ef_search |-> efs]

--------------------------------------------------------------------------
(* Retriever *)

\* the weights of retrieve's fusion, in tenths
similarity_weight == 7
intent_weight == 2
meta_weight == 1

\* a faulty variant of Step 3: the count of matched keys, not their share
MatchCount(meta, metadata_filters) ==
    IF ~IsNone(metadata_filters)
    THEN <<Cardinality({ key \in DOMAIN metadata_filters :
                           Get(meta, key) = metadata_filters[key] }), 1>>
    ELSE <<0, 1>>

\* Step 3: the share of the filter keys the metadata matches, 0.0 without
\* filters
MetaScore(meta, metadata_filters) ==
    IF ~IsNone(metadata_filters) /\ DOMAIN metadata_filters # {}
    THEN Rat(Cardinality({ key \in DOMAIN metadata_filters :
                             Get(meta, key) = metadata_filters[key] }),
             Cardinality(DOMAIN metadata_filters))
    ELSE <<0, 1>>

\* a faulty variant of Step 4: the keys the query wants, whatever the
\* metadata has
WantedCount(meta, query_intent) ==
    IF ~IsNone(query_intent)
    THEN Cardinality({ key \in DOMAIN query_intent : query_intent[key] = TRUE })
    ELSE 0

\* Step 4: intent_score, 0 without a query intent
IntentScore(meta, query_intent) ==
    IF ~IsNone(query_intent) /\ DOMAIN query_intent # {}
    THEN intent_score(meta, query_intent)
    ELSE 0

\* a faulty variant of Step 5: 0.7 * score alone
SimilarityOnly(score, intent, meta) == Rat(7 * score[1], 10 * score[2])

\* Step 5: 0.7 * score + 0.2 * intent_score + 0.1 * meta_score.  This is
\* double arithmetic, whose rounding is far below MantBits and not modelled.
FinalScore(score, intent, meta) ==
    Rat(similarity_weight * score[1] * meta[2]
          + intent_weight * intent * score[2] * meta[2]
          + meta_weight * meta[1] * score[2],
        10 * score[2] * meta[2])

\* Steps 3 to 5 for one result
Scored(r, ms, is) ==
    [rank     |-> r.rank,
     distance |-> r.distance,
     score    |-> r.score,
     text     |-> r.text,
     metadata |-> r.metadata,
     meta_score   |-> ms,
     intent_score |-> is,
     final_score  |-> FinalScore(r.score, is, ms)]

FinalKeys(scored) == [i \in 1..Len(scored) |-> <<0, scored[i].final_score>>]

\* a faulty variant of line 66: hits that match no filter key are dropped
SomeKeyMatched(h) == h.meta_score[1] > 0
RankedMatching(scored, k, efSearch) ==
    [raised |-> None, hits |-> Take(SelectSeq(scored, SomeKeyMatched), k),
     efSearch |-> efSearch]

\* a faulty variant of line 66: the first k, unsorted
Unranked(scored, k, efSearch) ==
    [raised |-> None, hits |-> Take(scored, k), efSearch |-> efSearch]

\* line 66 of retrieve
Ranked(scored, k, efSearch) ==
    [raised |-> None, hits |-> Take(SortDescending(scored, FinalKeys(scored)), k),
     efSearch |-> efSearch]

\* Steps 3 to 6 of retrieve
Fused(filtered_results, metadata_filters, query_intent, k, efSearch) ==
    Ranked([i \in 1..Len(filtered_results) |->
               Scored(filtered_results[i],
                      MetaScore(filtered_results[i].metadata, metadata_filters),
                      IntentScore(filtered_results[i].metadata, query_intent))],
           k, efSearch)

\* Steps 2 to 6 of retrieve
Gated(base_results, metadata_filters, query_intent, k, max_distance) ==
    IF base_results.raised # None
    THEN [raised |-> base_results.raised, hits |-> <<>>,
          efSearch |-> base_results.efSearch]
    ELSE Fused(WithinDistance(base_results.hits, max_distance),
               metadata_filters, query_intent, k, base_results.efSearch)

\* retrieve(query_data, k, max_distance)
Retrieve(idx, md, ct, efs, query_data, k, max_distance) ==
    Gated(Search(idx, md, ct, efs, query_data.embedding, k * 3),
          query_data.metadata_filters, query_data.query_intent, k, max_distance)

--------------------------------------------------------------------------
(* Persistence.  A file is <<>> when it does not exist and <<content>>     *)
(* when it does; one index name is modelled.  The index file holds what    *)
(* faiss.write_index writes: the header of the index and the components of *)
(* its vectors in one flat array.  The sidecar holds a JSON document, every *)
(* value under the name of its JSON type.                                  *)

NoFiles == [index_file |-> <<>>, metadata_file |-> <<>>]

\* before the first save_index no instance has saved
NothingSaved == [index |-> NewIndex(0, 0), metadata |-> <<>>, chunk_texts |-> <<>>,
                 dimension |-> 0, M |-> 0, ef_construction |-> 0, ef_search |-> 0]

\* the components of the vectors, row after row
RECURSIVE Flatten(_)
Flatten(vecs) == IF vecs = <<>> THEN <<>> ELSE Head(vecs) \o Flatten(Tail(vecs))

\* a faulty variant of faiss.write_index: the last vector is not written
WriteIndexShort(idx) ==
    [d |-> idx.d, ntotal |-> Max(ntotal(idx) - 1, 0), efSearch |-> idx.efSearch,
     xb |-> Flatten(idx.vecs)]

\* faiss.write_index(self.index, index_path)
WriteIndex(idx) ==
    [d |-> idx.d, ntotal |-> ntotal(idx), efSearch |-> idx.efSearch,
     xb |-> Flatten(idx.vecs)]

\* faiss.read_index(index_path)
ReadIndex(blob) ==
    [d |-> blob.d,
     vecs |-> [i \in 1..blob.ntotal |->
                 [j \in 1..blob.d |-> blob.xb[(i - 1) * blob.d + j]]],
     efSearch |-> blob.efSearch]

\* json.dump of the value of a metadata field, by its Python type: chunk_id
\* is an int, intent a dict of bools, the other fields are strings
JsonValue(key, v) ==
    CASE key = "chunk_id" -> [number |-> v]
      [] key = "intent"   -> [object |-> [f \in DOMAIN v |-> [boolean |-> v[f]]]]
      [] OTHER            -> [string |-> v]

\* json.dump of one metadata dict
JsonDict(m) == [object |-> [key \in DOMAIN m |-> JsonValue(key, m[key])]]

\* json.dump of the sidecar, lines 173-182 of save_index
JsonDump(md, ct, m, efc, efs) ==
    [object |->
       [metadata    |-> [array |-> [i \in 1..Len(md) |-> JsonDict(md[i])]],
        chunk_texts |-> [array |-> [i \in 1..Len(ct) |-> [string |-> ct[i]]]],
        hnsw_params |-> [object |-> [M               |-> [number |-> m],
                                     ef_construction |-> [number |-> efc],
                                     ef_search       |-> [number |-> efs],
                                     distance_metric |-> [string |-> "euclidean"]]]]]

\* json.load: the Python value of a JSON value
RECURSIVE JsonLoad(_)
JsonLoad(j) ==
    IF "number" \in DOMAIN j THEN j.number
    ELSE IF "string" \in DOMAIN j THEN j.string
    ELSE IF "boolean" \in DOMAIN j THEN j.boolean
    ELSE IF "array" \in DOMAIN j
    THEN [i \in DOMAIN j.array |-> JsonLoad(j.array[i])]
    ELSE [key \in DOMAIN j.object |-> JsonLoad(j.object[key])]

\* a sidecar file whose content is not a JSON document
Garbage == [garbage |-> TRUE]

\* save_index(filepath): faiss.write_index, then json.dump of the sidecar
SaveIndex(idx, md, ct, m, efc, efs) ==
    [index_file |-> << WriteIndex(idx) >>,
     metadata_file |-> << JsonDump(md, ct, m, efc, efs) >>]

\* lines 190-196 of load_index
Loaded(data, idx, m, efc, efs) ==
    [raised |-> None, index |-> idx, is_trained |-> TRUE,
     metadata |-> data.metadata, chunk_texts |-> data.chunk_texts,
     M |-> IF "hnsw_params" \in DOMAIN data /\ "M" \in DOMAIN data.hnsw_params
           THEN data.hnsw_params.M ELSE m,
     ef_construction |->
           IF "hnsw_params" \in DOMAIN data
              /\ "ef_construction" \in DOMAIN data.hnsw_params
           THEN data.hnsw_params.ef_construction ELSE efc,
     ef_search |->
           IF "hnsw_params" \in DOMAIN data /\ "ef_search" \in DOMAIN data.hnsw_params
           THEN data.hnsw_params.ef_search ELSE efs]

\* lines 188-196 of load_index, self.index being the index read at line 187
Opened(sidecar, idx, md, ct, m, efc, efs) ==
    IF sidecar = <<>>
    THEN [raised |-> "FileNotFoundError", index |-> idx,
          is_trained |-> TRUE, metadata |-> md, chunk_texts |-> ct,
          M |-> m, ef_construction |-> efc, ef_search |-> efs]
    ELSE IF "garbage" \in DOMAIN sidecar[1]
    THEN [raised |-> "JSONDecodeError", index |-> idx,
          is_trained |-> TRUE, metadata |-> md, chunk_texts |-> ct,
          M |-> m, ef_construction |-> efc, ef_search |-> efs]
    ELSE Loaded(JsonLoad(sidecar[1]), idx, m, efc, efs)

\* load_index(filepath): what it raises and the fields it leaves
LoadIndex(files, idx, md, ct, m, efc, efs, trained) ==
    IF files.index_file = <<>>
    THEN [raised |-> "RuntimeError", index |-> idx, is_trained |-> trained,
          metadata |-> md, chunk_texts |-> ct,
          M |-> m, ef_construction |-> efc, ef_search |-> efs]
    ELSE Opened(files.metadata_file, ReadIndex(files.index_file[1]), md, ct, m, efc, efs)

--------------------------------------------------------------------------
(* DocumentLoader (src/ingestion/loader.py).  An entry of the docs folder  *)
(* has a name, a suffix, the pages (or the one text) a reader gets from it *)
(* and, when `raises`, the number of pages read before the reader raises.  *)
(* A text is the tuple of its pages.                                       *)

\* most entries of the docs folder
MaxFiles == 3

Entries ==
    { [name |-> "guide.pdf",   suffix |-> ".pdf",  is_file |-> TRUE,
       pages |-> <<"one", "two">>, raises |-> FALSE, readable |-> 2],
      [name |-> "broken.pdf",  suffix |-> ".pdf",  is_file |-> TRUE,
       pages |-> <<>>, raises |-> TRUE, readable |-> 0],
      [name |-> "torn.PDF",    suffix |-> ".PDF",  is_file |-> TRUE,
       pages |-> <<"one", "two">>, raises |-> TRUE, readable |-> 1],
      [name |-> "notes.txt",   suffix |-> ".txt",  is_file |-> TRUE,
       pages |-> <<"text">>, raises |-> FALSE, readable |-> 1],
      [name |-> "bad.json",    suffix |-> ".json", is_file |-> TRUE,
       pages |-> <<>>, raises |-> TRUE, readable |-> 0],
      [name |-> "report.docx", suffix |-> ".docx", is_file |-> TRUE,
       pages |-> <<"text">>, raises |-> FALSE, readable |-> 1],
      [name |-> "page.html",   suffix |-> ".html", is_file |-> TRUE,
       pages |-> <<"text">>, raises |-> FALSE, readable |-> 1],
      [name |-> "archive",     suffix |-> "",      is_file |-> FALSE,
       pages |-> <<>>, raises |-> FALSE, readable |-> 0] }

\* what iterdir() may yield: up to MaxFiles entries of distinct names
Folders ==
    UNION { { f \in [1..n -> Entries] : \A i, j \in 1..n : i # j => f[i] # f[j] } :
            n \in 0..MaxFiles }

\* str.lower() of a suffix
Lower(suffix) == IF suffix = ".PDF" THEN ".pdf" ELSE suffix

\* a reader that lets its exception out: _load_docx, _load_text, _load_json
Read(file) ==
    IF file.raises THEN [raised |-> "Exception", text |-> <<>>]
    ELSE [raised |-> None, text |-> file.pages]

\* _load_pdf(file_path): the exception of a page, or of opening the file,
\* is printed and the text read so far is returned
_load_pdf(file) ==
    [raised |-> None,
     text   |-> IF file.raises THEN Take(file.pages, file.readable) ELSE file.pages]

\* lines 37-55 of load_documents for one file: the entry it appends, if any
Document(file, ext) ==
    IF ext = ".pdf"
    THEN << <<file.name, _load_pdf(file).text>> >>
    ELSE IF ext \in { ".docx", ".doc", ".md", ".txt", ".json" }
    THEN (IF Read(file).raised # None THEN <<>>
          ELSE << <<file.name, Read(file).text>> >>)
    ELSE <<>>

\* load_documents(): the list of (filename, text)
RECURSIVE LoadDocuments(_)
LoadDocuments(folder) ==
    IF folder = <<>> THEN <<>>
    ELSE (IF Head(folder).is_file THEN Document(Head(folder), Lower(Head(folder).suffix))
          ELSE <<>>)
         \o LoadDocuments(Tail(folder))

--------------------------------------------------------------------------
(* The arguments add_embeddings is called with. *)

Batches == UNION { [1..n -> Chunks] : n \in BatchSizes }

Embeddings(batch) == [i \in 1..Len(batch) |-> batch[i].embedding]
MetadataList(batch) == [i \in 1..Len(batch) |-> batch[i].metadata]
Texts(batch) == [i \in 1..Len(batch) |-> batch[i].text]

\* list[:len(list) - n]
DropLast(list, n) == SubSeq(list, 1, Len(list) - n)

\* how many trailing elements a call with unequal lengths lacks in
\* (embeddings, metadata_list, chunk_texts): not the same number in each
Drops == { d \in [1..3 -> 0..1] : ~(d[1] = d[2] /\ d[2] = d[3]) }

--------------------------------------------------------------------------
(* The calls.  One store is live at a time; __init__ makes a new one.      *)

\* the frame of a thread that is not in search; `overlapped` records
\* whether another thread was in search at any time during the call
Idle == [q |-> <<>>, k |-> 0, original_ef_search |-> 0, efUsed |-> 0,
         distances |-> <<>>, indices |-> <<>>, overlapped |-> FALSE]

Init ==
    /\ index = NewIndex(BuildConfig.dimension, BuildConfig.ef_search)
    /\ metadata = <<>>
    /\ chunk_texts = <<>>
    /\ dimension = BuildConfig.dimension
    /\ M = BuildConfig.M
    /\ ef_construction = BuildConfig.ef_construction
    /\ ef_search = BuildConfig.ef_search
    /\ is_trained = FALSE
    /\ disk = NoFiles
    /\ saved = NothingSaved
    /\ last = [op |-> "__init__"]
    /\ pc = [t \in Threads |-> "idle"]
    /\ frame = [t \in Threads |-> Idle]
    /\ ef_at_rest = BuildConfig.ef_search

\* FAISSHNSWStore(dimension, M, ef_construction, ef_search)
__init__(c) ==
    /\ index' = NewIndex(c.dimension, c.ef_search)
    /\ metadata' = <<>>
    /\ chunk_texts' = <<>>
    /\ dimension' = c.dimension
    /\ M' = c.M
    /\ ef_construction' = c.ef_construction
    /\ ef_search' = c.ef_search
    /\ is_trained' = FALSE
    /\ last' = [op |-> "__init__"]
    /\ ef_at_rest' = c.ef_search
    /\ UNCHANGED <<disk, saved, pc, frame>>

\* add_embeddings(embeddings, metadata_list, chunk_texts)
add_embeddings(embeddings, metadata_list, texts) ==
    \E r \in { AddEmbeddings(index, metadata, chunk_texts, is_trained,
                             embeddings, metadata_list, texts) } :
        /\ Len(index.vecs) + Len(embeddings) <= MaxTotal
        /\ Len(metadata) + Len(metadata_list) <= MaxTotal
        /\ Len(chunk_texts) + Len(texts) <= MaxTotal
        /\ index' = r.index
        /\ metadata' = r.metadata
        /\ chunk_texts' = r.chunk_texts
        /\ is_trained' = r.is_trained
        /\ last' = [op |-> "add_embeddings", embeddings |-> embeddings,
                    metadata_list |-> metadata_list, chunk_texts |-> texts,
                    raised |-> r.raised]
        /\ UNCHANGED <<dimension, M, ef_construction, ef_search, disk, saved, threads>>

\* what a call that only reads the records leaves: the efSearch of the
\* index and the record of the call
Returns(r, call) ==
    /\ index' = [index EXCEPT !.efSearch = r.efSearch]
    /\ last' = call
    /\ ef_at_rest' = index.efSearch
    /\ UNCHANGED <<metadata, chunk_texts, dimension, M, ef_construction, ef_search,
                   is_trained, disk, saved, pc, frame>>

\* search(query_embedding, k)
search(q, k) ==
    \E r \in { Search(index, metadata, chunk_texts, ef_search, q, k) } :
        Returns(r, [op |-> "search", query_embedding |-> q, k |-> k,
                        raised |-> r.raised, result |-> r.hits, efUsed |-> r.efUsed])

\* search_with_threshold(query_embedding, k, max_distance)
search_with_threshold(q, k, max_distance) ==
    \E r \in { SearchWithThreshold(index, metadata, chunk_texts, ef_search, q, k,
                 max_distance) } :
        Returns(r, [op |-> "search_with_threshold", query_embedding |-> q, k |-> k,
                        max_distance |-> max_distance,
                        raised |-> r.raised, result |-> r.hits])

\* batch_search(query_embeddings, k)
batch_search(queries, k) ==
    \E r \in { BatchSearch(index, metadata, chunk_texts, ef_search, queries, k) } :
        Returns(r, [op |-> "batch_search", query_embeddings |-> queries, k |-> k,
                        raised |-> r.raised, result |-> r.hits])

\* search_with_metadata(query_embedding, metadata_filters, k)
search_with_metadata(q, metadata_filters, k) ==
    \E r \in { SearchWithMetadata(index, metadata, chunk_texts, ef_search, q,
                 metadata_filters, k) } :
        Returns(r, [op |-> "search_with_metadata", query_embedding |-> q,
                        metadata_filters |-> metadata_filters, k |-> k,
                        raised |-> r.raised, result |-> r.hits])

\* search_with_intent(query_embedding, query_intent, k)
search_with_intent(q, query_intent, k) ==
    \E r \in { SearchWithIntent(index, metadata, chunk_texts, ef_search, q,
                 query_intent, k) } :
        Returns(r, [op |-> "search_with_intent", query_embedding |-> q,
                        query_intent |-> query_intent, k |-> k,
                        raised |-> r.raised, result |-> r.hits])

\* find_similar_by_id(chunk_id, k)
find_similar_by_id(chunk_id, k) ==
    \E r \in { FindSimilarById(index, metadata, chunk_texts, ef_search, chunk_id,
                 k) } :
        Returns(r, [op |-> "find_similar_by_id", chunk_id |-> chunk_id, k |-> k,
                        raised |-> r.raised, result |-> r.hits])

\* get_index_stats()
get_index_stats ==
    /\ last' = [op |-> "get_index_stats", raised |-> None,
                result |-> GetIndexStats(index, dimension, M, ef_construction,
                                         ef_search)]
    /\ UNCHANGED <<fields, disk, saved, threads>>

\* Retriever(store).retrieve(query_data, k, max_distance)
retrieve(query_data, k, max_distance) ==
    \E r \in { Retrieve(index, metadata, chunk_texts, ef_search, query_data, k,
                 max_distance) } :
        Returns(r, [op |-> "retrieve", query_data |-> query_data, k |-> k,
                        max_distance |-> max_distance,
                        raised |-> r.raised, result |-> r.hits])

\* save_index(filepath)
save_index ==
    /\ disk' = SaveIndex(index, metadata, chunk_texts, M, ef_construction, ef_search)
    /\ saved' = [index |-> index, metadata |-> metadata, chunk_texts |-> chunk_texts,
                 dimension |-> dimension, M |-> M,
                 ef_construction |-> ef_construction, ef_search |-> ef_search]
    /\ last' = [op |-> "save_index", raised |-> None]
    /\ UNCHANGED <<fields, threads>>

\* load_index(filepath)
load_index ==
    \E r \in { LoadIndex(disk, index, metadata, chunk_texts, M, ef_construction,
                         ef_search, is_trained) } :
        /\ index' = r.index
        /\ is_trained' = r.is_trained
        /\ metadata' = r.metadata
        /\ chunk_texts' = r.chunk_texts
        /\ M' = r.M
        /\ ef_construction' = r.ef_construction
        /\ ef_search' = r.ef_search
        /\ last' = [op |-> "load_index", raised |-> r.raised]
        /\ ef_at_rest' = r.index.efSearch
        /\ UNCHANGED <<dimension, disk, saved, pc, frame>>

\* DocumentLoader(docs_path).load_documents(), the folder holding `folder`
load_documents(folder) ==
    /\ last' = [op |-> "load_documents", folder |-> folder, raised |-> None,
                result |-> LoadDocuments(folder)]
    /\ UNCHANGED <<fields, disk, saved, threads>>

\* the sidecar file as load_index may find it when something else than
\* save_index wrote or removed it: no file at all
sidecar_removed ==
    /\ disk.metadata_file # <<>>
    /\ disk' = [disk EXCEPT !.metadata_file = <<>>]
    /\ last' = [op |-> "sidecar_removed", raised |-> None]
    /\ UNCHANGED <<fields, saved, threads>>

\* a file that json.load cannot parse
sidecar_truncated ==
    /\ disk.metadata_file # <<>>
    /\ disk.metadata_file # <<Garbage>>
    /\ disk' = [disk EXCEPT !.metadata_file = <<Garbage>>]
    /\ last' = [op |-> "sidecar_truncated", raised |-> None]
    /\ UNCHANGED <<fields, saved, threads>>

\* the document with only the fields `keep` under 'hnsw_params'
WithParams(doc, keep) ==
    [object |-> [doc.object EXCEPT
                   !.hnsw_params = [object |-> [key \in DOMAIN @.object \cap keep |->
                                                  @.object[key]]]]]

\* a sidecar without 'hnsw_params'
sidecar_without_params ==
    /\ disk.metadata_file # <<>>
    /\ "object" \in DOMAIN disk.metadata_file[1]
    /\ "hnsw_params" \in DOMAIN disk.metadata_file[1].object
    /\ disk' = [disk EXCEPT !.metadata_file =
                   << [object |-> [key \in DOMAIN @[1].object \ {"hnsw_params"} |->
                                     @[1].object[key]]] >>]
    /\ last' = [op |-> "sidecar_without_params", raised |-> None]
    /\ UNCHANGED <<fields, saved, threads>>

\* a sidecar whose 'hnsw_params' has only some of the fields
sidecar_with_params(keep) ==
    /\ disk.metadata_file # <<>>
    /\ "object" \in DOMAIN disk.metadata_file[1]
    /\ "hnsw_params" \in DOMAIN disk.metadata_file[1].object
    /\ DOMAIN disk.metadata_file[1].object.hnsw_params.object \cap keep
         # DOMAIN disk.metadata_file[1].object.hnsw_params.object
    /\ disk' = [disk EXCEPT !.metadata_file = << WithParams(@[1], keep) >>]
    /\ last' = [op |-> "sidecar_with_params", raised |-> None]
    /\ UNCHANGED <<fields, saved, threads>>

--------------------------------------------------------------------------
(* search, line by line, for threads that share the one store.  A thread   *)
(* may be pre-empted between any two lines.                                *)

NoneRunning == \A t \in Threads : pc[t] = "idle"

\* lines 40-42: return [] from an empty store, else read
\* original_ef_search = self.index.hnsw.efSearch
search_line_42(t, q, k) ==
    /\ pc[t] = "idle"
    /\ ef_at_rest' = IF NoneRunning THEN index.efSearch ELSE ef_at_rest
    /\ IF ntotal(index) = 0
       THEN /\ last' = [op |-> "search", thread |-> t, query_embedding |-> q, k |-> k,
                        raised |-> None, result |-> <<>>, efUsed |-> 0,
                        efBefore |-> index.efSearch, efAfter |-> index.efSearch,
                        overlapped |-> ~NoneRunning]
            /\ UNCHANGED <<pc, frame>>
       ELSE /\ pc' = [pc EXCEPT ![t] = "line_43"]
            /\ frame' = [u \in Threads |->
                           IF u = t
                           THEN [Idle EXCEPT !.q = q, !.k = k,
                                             !.original_ef_search = index.efSearch,
                                             !.overlapped = ~NoneRunning]
                           ELSE IF pc[u] # "idle"
                           THEN [frame[u] EXCEPT !.overlapped = TRUE]
                           ELSE frame[u]]
            /\ UNCHANGED last
    /\ UNCHANGED <<fields, disk, saved>>

\* line 43: self.index.hnsw.efSearch = max(self.ef_search, k * 2)
search_line_43(t) ==
    /\ pc[t] = "line_43"
    /\ index' = [index EXCEPT !.efSearch = Widened(ef_search, frame[t].k)]
    /\ pc' = [pc EXCEPT ![t] = "line_46"]
    /\ UNCHANGED <<metadata, chunk_texts, dimension, M, ef_construction, ef_search,
                   is_trained, disk, saved, last, frame, ef_at_rest>>

\* line 46, the graph query having returned `found`
Queried(t, found) ==
    IF found.raised # None
    THEN /\ pc' = [pc EXCEPT ![t] = "idle"]
         /\ frame' = [frame EXCEPT ![t] = Idle]
         /\ last' = [op |-> "search", thread |-> t, query_embedding |-> frame[t].q,
                     k |-> frame[t].k, raised |-> found.raised, result |-> <<>>,
                     efUsed |-> index.efSearch,
                     efBefore |-> frame[t].original_ef_search,
                     efAfter |-> index.efSearch,
                     overlapped |-> frame[t].overlapped]
    ELSE /\ pc' = [pc EXCEPT ![t] = "line_49"]
         /\ frame' = [frame EXCEPT ![t].efUsed = index.efSearch,
                                   ![t].distances = found.distances,
                                   ![t].indices = found.indices]
         /\ UNCHANGED last

\* line 46: distances, indices = self.index.search(query_embedding, k)
search_line_46(t) ==
    /\ pc[t] = "line_46"
    /\ Queried(t, IndexSearch(index, frame[t].q, frame[t].k))
    /\ UNCHANGED <<fields, disk, saved, ef_at_rest>>

\* line 49: self.index.hnsw.efSearch = original_ef_search
search_line_49(t) ==
    /\ pc[t] = "line_49"
    /\ index' = [index EXCEPT !.efSearch = frame[t].original_ef_search]
    /\ pc' = [pc EXCEPT ![t] = "line_51"]
    /\ UNCHANGED <<metadata, chunk_texts, dimension, M, ef_construction, ef_search,
                   is_trained, disk, saved, last, frame, ef_at_rest>>

\* lines 51-63, the loop having given `res`
Built(t, res) ==
    /\ last' = [op |-> "search", thread |-> t, query_embedding |-> frame[t].q,
                k |-> frame[t].k, raised |-> res.raised, result |-> res.hits,
                efUsed |-> frame[t].efUsed,
                efBefore |-> frame[t].original_ef_search,
                efAfter |-> index.efSearch,
                overlapped |-> frame[t].overlapped]
    /\ pc' = [pc EXCEPT ![t] = "idle"]
    /\ frame' = [frame EXCEPT ![t] = Idle]

\* lines 51-63: build the hits and return them
search_line_51(t) ==
    /\ pc[t] = "line_51"
    /\ Built(t, Hits(metadata, chunk_texts, frame[t].distances, frame[t].indices, 1))
    /\ UNCHANGED <<fields, disk, saved, ef_at_rest>>

--------------------------------------------------------------------------
(* add_embeddings, line by line, for a thread that fills the store while   *)
(* other callers read it.                                                  *)

\* lines 25-31, the index having answered `added` to index.add
AddBegun(t, added, embeddings, metadata_list, texts) ==
    IF added.raised # None
    THEN /\ last' = [op |-> "add_embeddings", embeddings |-> embeddings,
                     metadata_list |-> metadata_list, chunk_texts |-> texts,
                     raised |-> added.raised]
         /\ UNCHANGED <<index, is_trained, pc, frame>>
    ELSE /\ index' = added.index
         /\ is_trained' = TRUE
         /\ pc' = [pc EXCEPT ![t] = "line_33"]
         /\ frame' = [frame EXCEPT ![t] = [embeddings |-> embeddings,
                                           metadata_list |-> metadata_list,
                                           chunk_texts |-> texts]]
         /\ UNCHANGED last

\* lines 25-31: return on an empty batch, else self.index.add(embeddings)
add_line_28(t, embeddings, metadata_list, texts) ==
    /\ pc[t] = "idle"
    /\ Len(index.vecs) + Len(embeddings) <= MaxTotal
    /\ Len(metadata) + Len(metadata_list) <= MaxTotal
    /\ Len(chunk_texts) + Len(texts) <= MaxTotal
    /\ IF Len(embeddings) = 0
       THEN /\ last' = [op |-> "add_embeddings", embeddings |-> embeddings,
                        metadata_list |-> metadata_list, chunk_texts |-> texts,
                        raised |-> None]
            /\ UNCHANGED <<index, is_trained, pc, frame>>
       ELSE AddBegun(t, IndexAdd(index, embeddings), embeddings, metadata_list, texts)
    /\ UNCHANGED <<metadata, chunk_texts, dimension, M, ef_construction, ef_search,
                   disk, saved, ef_at_rest>>

\* line 33: self.metadata.extend(metadata_list)
add_line_33(t) ==
    /\ pc[t] = "line_33"
    /\ metadata' = Extend(metadata, frame[t].metadata_list)
    /\ pc' = [pc EXCEPT ![t] = "line_34"]
    /\ UNCHANGED <<index, chunk_texts, dimension, M, ef_construction, ef_search,
                   is_trained, disk, saved, last, frame, ef_at_rest>>

\* line 34: self.chunk_texts.extend(chunk_texts), and the return
add_line_34(t) ==
    /\ pc[t] = "line_34"
    /\ chunk_texts' = Extend(chunk_texts, frame[t].chunk_texts)
    /\ last' = [op |-> "add_embeddings", embeddings |-> frame[t].embeddings,
                metadata_list |-> frame[t].metadata_list,
                chunk_texts |-> frame[t].chunk_texts, raised |-> None]
    /\ pc' = [pc EXCEPT ![t] = "idle"]
    /\ frame' = [frame EXCEPT ![t] = Idle]
    /\ UNCHANGED <<index, metadata, dimension, M, ef_construction, ef_search,
                   is_trained, disk, saved, ef_at_rest>>

--------------------------------------------------------------------------
(* Spec: one caller that keeps add_embeddings' precondition of equal       *)
(* lengths, on the store built first.                                      *)

\* the (metadata_filters, query_intent) pairs a processed query carries
Extracted == { <<NoDict, NoDict>>,
               <<EmptyDict, [is_definition |-> TRUE, is_howto |-> FALSE]>>,
               <<[domain |-> "technology"], [is_definition |-> TRUE, is_howto |-> FALSE]>>,
               <<[domain |-> "science", audience |-> "general"], NoDict>>,
               <<[domain |-> "technology"], EmptyDict>> }

\* query_data as QueryProcessor.process returns it
QueryData == { [embedding |-> q, metadata_filters |-> e[1], query_intent |-> e[2]] :
               q \in Queries, e \in Extracted }

AddBatch ==
    \E batch \in Batches :
        add_embeddings(Embeddings(batch), MetadataList(batch), Texts(batch))

AddWrongDimension ==
    \E batch \in Batches \ {<<>>} :
        add_embeddings([i \in 1..Len(batch) |-> WrongDimVector],
                       MetadataList(batch), Texts(batch))

Next ==
    \/ AddBatch
    \/ AddWrongDimension
    \/ \E q \in Queries, k \in Ks : search(q, k)
    \/ \E q \in Queries, k \in Ks, d \in MaxDistances : search_with_threshold(q, k, d)
    \/ \E q \in Queries, k \in Ks : batch_search(<<q, q>>, k)
    \/ \E q \in Queries, f \in Filters, k \in Ks : search_with_metadata(q, f, k)
    \/ \E q \in Queries, i \in Intents, k \in Ks : search_with_intent(q, i, k)
    \/ \E c \in ChunkIds, k \in Ks : find_similar_by_id(c, k)
    \/ get_index_stats
    \/ \E qd \in QueryData, k \in Ks, d \in MaxDistances : retrieve(qd, k, d)

Spec == Init /\ [][Next]_vars

--------------------------------------------------------------------------
(* SpecMisuse: callers that may pass add_embeddings arguments of unequal   *)
(* lengths.                                                                *)

AddMismatched ==
    \E batch \in Batches \ {<<>>}, d \in Drops :
        add_embeddings(DropLast(Embeddings(batch), d[1]),
                       DropLast(MetadataList(batch), d[2]),
                       DropLast(Texts(batch), d[3]))

NextMisuse ==
    \/ AddBatch
    \/ AddMismatched
    \/ \E q \in Queries, k \in Ks : search(q, k)

SpecMisuse == Init /\ [][NextMisuse]_vars

\* SpecMisuse with the filtered search
NextMisuseFiltered ==
    \/ NextMisuse
    \/ \E q \in Queries, f \in Filters, k \in Ks : search_with_metadata(q, f, k)

SpecMisuseFiltered == Init /\ [][NextMisuseFiltered]_vars

--------------------------------------------------------------------------
(* SpecPersist: stores are built, saved and loaded.  The batches and the   *)
(* arguments of the reading calls are fixed.                               *)

PersistBatches == { <<ChunkTech>>, <<ChunkSci, ChunkTech>> }

PersistQuery == <<2, 0>>

PersistQueryData ==
    [embedding |-> PersistQuery, metadata_filters |-> [domain |-> "technology"],
     query_intent |-> [is_definition |-> TRUE, is_howto |-> FALSE]]

AddPersistBatch ==
    \E batch \in PersistBatches :
        add_embeddings(Embeddings(batch), MetadataList(batch), Texts(batch))

NextPersist ==
    \/ \E c \in Configs : __init__(c)
    \/ AddPersistBatch
    \/ save_index
    \/ load_index
    \/ get_index_stats
    \/ search(PersistQuery, MaxK)
    \/ search_with_threshold(PersistQuery, MaxK, <<10, 1>>)
    \/ batch_search(<<PersistQuery>>, MaxK)
    \/ search_with_metadata(PersistQuery, [domain |-> "technology"], MaxK)
    \/ search_with_intent(PersistQuery, PersistQueryData.query_intent, MaxK)
    \/ find_similar_by_id(1, MaxK)
    \/ retrieve(PersistQueryData, MaxK, <<10, 1>>)

SpecPersist == Init /\ [][NextPersist]_vars

--------------------------------------------------------------------------
(* SpecFiles: stores are built, saved and loaded, and between a save and a *)
(* load the sidecar may be removed, damaged or replaced by one that lacks  *)
(* parameters.                                                             *)

NextFiles ==
    \/ \E c \in Configs : __init__(c)
    \/ AddPersistBatch
    \/ save_index
    \/ load_index
    \/ sidecar_removed
    \/ sidecar_truncated
    \/ sidecar_without_params
    \/ \E keep \in { {"M", "distance_metric"}, {"ef_construction", "ef_search"} } :
          sidecar_with_params(keep)

SpecFiles == Init /\ [][NextFiles]_vars

--------------------------------------------------------------------------
(* SpecLoader: the documents of a folder are loaded.                       *)

NextLoader == \E folder \in Folders : load_documents(folder)

SpecLoader == Init /\ [][NextLoader]_vars

--------------------------------------------------------------------------
(* SpecBadQuery: a caller that may pass search and batch_search a query of *)
(* another dimension than the index's.                                     *)

NextBadQuery ==
    \/ AddBatch
    \/ \E q \in Queries \cup { WrongDimVector }, k \in Ks : search(q, k)
    \/ \E q \in Queries \cup { WrongDimVector }, k \in Ks : batch_search(<<q, q>>, k)

SpecBadQuery == Init /\ [][NextBadQuery]_vars

--------------------------------------------------------------------------
(* SpecAddRace: one thread fills the store with add_embeddings while       *)
(* another caller searches it between any two lines of the add.            *)

\* the thread that adds
Adder == "t1"

NextAddRace ==
    \/ \E batch \in Batches :
          add_line_28(Adder, Embeddings(batch), MetadataList(batch), Texts(batch))
    \/ add_line_33(Adder)
    \/ add_line_34(Adder)
    \/ \E q \in Queries, k \in Ks : search(q, k)

SpecAddRace == Init /\ [][NextAddRace]_vars

--------------------------------------------------------------------------
(* SpecConc: two threads search the one store, which a third caller fills. *)

ConcBatch == <<ChunkTech, ChunkSci>>

ConcQuery == <<2, 0>>

\* a k that leaves efSearch at ef_search, and one that widens it
ConcKs == { 1, MaxK }

AddConcBatch ==
    add_embeddings(Embeddings(ConcBatch), MetadataList(ConcBatch), Texts(ConcBatch))

NextConc ==
    \/ AddConcBatch
    \/ \E t \in Threads, k \in ConcKs : search_line_42(t, ConcQuery, k)
    \/ \E t \in Threads : search_line_43(t)
    \/ \E t \in Threads : search_line_46(t)
    \/ \E t \in Threads : search_line_49(t)
    \/ \E t \in Threads : search_line_51(t)

SpecConc == Init /\ [][NextConc]_vars


--------------------------------------------------------------------------
(* Properties.  A property of a call reads the record `last` of the call   *)
(* and, in a step, the store before (unprimed) and after (primed) it.      *)

Abs(x) == IF x < 0 THEN -x ELSE x

\* list a is the beginning of list b
IsPrefix(a, b) == Len(a) <= Len(b) /\ \A i \in 1..Len(a) : a[i] = b[i]

\* what the store holds under id i: the vector, and the metadata and the
\* text if the arrays reach that far
RecordAt(idx, md, ct, i) ==
    [vector   |-> idx.vecs[i + 1],
     metadata |-> IF i < Len(md) THEN <<md[i + 1]>> ELSE <<>>,
     text     |-> IF i < Len(ct) THEN <<ct[i + 1]>> ELSE <<>>]

\* the three arguments of an add_embeddings call have the same length
EqualLengths(call) ==
    /\ Len(call.embeddings) = Len(call.metadata_list)
    /\ Len(call.metadata_list) = Len(call.chunk_texts)

\* the count and both arrays are as before the step
StoreUnchanged ==
    /\ ntotal(index') = ntotal(index)
    /\ metadata' = metadata
    /\ chunk_texts' = chunk_texts

\* C1: in every state reached by add_embeddings calls whose three arguments
\* have equal length and by load_index calls of indexes that save_index
\* wrote, len(metadata) == len(chunk_texts) == index.ntotal.
C1_ParallelArrays ==
    /\ Len(metadata) = Len(chunk_texts)
    /\ Len(chunk_texts) = ntotal(index)

\* a store with records, loaded into an instance built for another dimension
C1_Loaded ==
    /\ last.op = "load_index"
    /\ last.raised = None
    /\ ntotal(index) >= 2
    /\ dimension # index.d

\* C2: an add_embeddings call whose three arguments do not all have the
\* same length is rejected (it raises) and leaves the index count, metadata
\* and chunk_texts unchanged.
C2_UnequalLengthsRejected ==
    [][ (last'.op = "add_embeddings" /\ ~EqualLengths(last'))
          => (last'.raised # None /\ StoreUnchanged) ]_vars

\* the records ids previous.. of the store after the step are the batch's
BatchStored(call, previous) ==
    \A j \in 0..(Len(call.embeddings) - 1) :
        RecordAt(index', metadata', chunk_texts', previous + j)
          = [vector   |-> call.embeddings[j + 1],
             metadata |-> <<call.metadata_list[j + 1]>>,
             text     |-> <<call.chunk_texts[j + 1]>>]

\* C3: after add_embeddings of n >= 1 vectors of dimension D with n metadata
\* entries and n texts, the index count is the previous count plus n, the
\* record with id previous_count + j has metadata_list[j], texts[j] and
\* vectors[j], and the records with smaller ids are unchanged.
C3_BatchAppended ==
    [][ (/\ last'.op = "add_embeddings"
         /\ Len(last'.embeddings) >= 1
         /\ EqualLengths(last')
         /\ \A i \in 1..Len(last'.embeddings) : Len(last'.embeddings[i]) = index.d)
          => (/\ last'.raised = None
              /\ ntotal(index') = ntotal(index) + Len(last'.embeddings)
              /\ BatchStored(last', ntotal(index))
              /\ \A i \in 0..(ntotal(index) - 1) :
                    RecordAt(index', metadata', chunk_texts', i)
                      = RecordAt(index, metadata, chunk_texts, i)) ]_vars

\* C4: add_embeddings with a batch that has a vector whose dimension is not
\* D fails and rejects the whole batch: the index count, metadata and
\* chunk_texts after the call are those before it.
C4_WrongDimensionRejected ==
    [][ (/\ last'.op = "add_embeddings"
         /\ \E i \in 1..Len(last'.embeddings) : Len(last'.embeddings[i]) # index.d)
          => (last'.raised # None /\ StoreUnchanged) ]_vars

\* a batch of the wrong dimension was refused by a store that has records
C4_Rejected ==
    /\ last.op = "add_embeddings"
    /\ last.raised = "AssertionError"
    /\ \E i \in 1..Len(last.embeddings) : Len(last.embeddings[i]) # index.d
    /\ ntotal(index) > 0

\* C5: the store is append-only: no call on it other than load_index
\* (a new store is another instance) lowers the record count or changes
\* the vector, metadata or text under an id already assigned.
C5_AppendOnly ==
    [][ (last'.op \notin {"load_index", "__init__"})
          => (/\ IsPrefix(index.vecs, index'.vecs)
              /\ IsPrefix(metadata, metadata')
              /\ IsPrefix(chunk_texts, chunk_texts')) ]_vars

\* a batch was appended to a store that had records
C5_Appended ==
    /\ last.op = "add_embeddings"
    /\ last.raised = None
    /\ Len(last.embeddings) > 0
    /\ ntotal(index) > Len(last.embeddings)

\* hit h is the record with id i, at its distance from q
HitOfRecord(h, q, i) ==
    /\ h.distance = L2sqr(index.vecs[i + 1], q)
    /\ i < Len(metadata) /\ h.metadata = metadata[i + 1]
    /\ i < Len(chunk_texts) /\ h.text = chunk_texts[i + 1]

\* the hits are those of distinct records, in ascending distance
HitsOfRecords(hits, q) ==
    /\ \A i \in 1..Len(hits) : \A j \in (i + 1)..Len(hits) :
          RatLe(hits[i].distance, hits[j].distance)
    /\ \A i \in 1..Len(hits) : hits[i].distance[1] >= 0
    /\ \E ids \in [1..Len(hits) -> 0..(ntotal(index) - 1)] :
          /\ \A i \in 1..Len(hits) : \A j \in (i + 1)..Len(hits) : ids[i] # ids[j]
          /\ \A i \in 1..Len(hits) : HitOfRecord(hits[i], q, ids[i])

\* C6: search(q, k) on a store of N records returns exactly min(k, N) hits
\* in ascending distance, each with distance >= 0 and with the text and
\* the metadata of the record whose vector it matched; the empty list when
\* N = 0.
C6_SearchHits ==
    last.op = "search"
      => (/\ last.raised = None
          /\ Len(last.result) = Min(last.k, ntotal(index))
          /\ HitsOfRecords(last.result, last.query_embedding))

\* C7: a search(q, k) that no other search overlaps runs the graph query
\* with efSearch = max(ef_search, 2k), and when it returns the index's
\* efSearch is the one it had just before the call.
C7_WidenedThenRestored ==
    (last.op = "search" /\ ~last.overlapped)
      => (/\ last.efUsed # 0
             => last.efUsed = (IF ef_search >= 2 * last.k THEN ef_search
                               ELSE 2 * last.k)
          /\ last.efAfter = last.efBefore)

\* a search alone on the store ran its graph query with a widened efSearch
C7_Widened ==
    /\ last.op = "search"
    /\ ~last.overlapped
    /\ last.efUsed > last.efBefore
    /\ last.result # <<>>

\* C8: whenever no search is running, the index's efSearch is the one it
\* had before the searches that overlapped began.
C8_OnlyTransient == NoneRunning => index.efSearch = ef_at_rest

\* the score is in (0, 1], is 1 for distance 0 and is 1 / (1 + distance)
\* up to the two roundings of the float arithmetic
RoundedScore(h) ==
    /\ h.score[1] > 0
    /\ RatLe(h.score, <<1, 1>>)
    /\ h.distance[1] = 0 => h.score = <<1, 1>>
    /\ Abs(h.score[1] * (h.distance[2] + h.distance[1]) - h.score[2] * h.distance[2])
          * (Pow2(MantBits) - 1)
         <= 2 * h.score[2] * h.distance[2]

\* C9, as it holds: every hit of search has the float 1 / (1 + distance) as
\* score: in (0, 1], 1 when distance is 0, within rounding of the exact
\* quotient, and of two hits the one with the smaller distance has a score
\* at least as large.
C9_ScoreRounded ==
    last.op = "search"
      => (/\ \A i \in 1..Len(last.result) : RoundedScore(last.result[i])
          /\ \A i, j \in 1..Len(last.result) :
                RatLt(last.result[i].distance, last.result[j].distance)
                  => RatLe(last.result[j].score, last.result[i].score))

\* a search returned a hit at distance 0 and a farther one
C9_TwoDistances ==
    /\ last.op = "search"
    /\ Len(last.result) = 2
    /\ last.result[1].distance[1] = 0
    /\ last.result[2].distance[1] > 0

\* C9, as written: every hit of search has score == 1 / (1 + distance),
\* in (0, 1], which is 1 exactly when distance is 0, and of two hits the
\* one with the strictly smaller distance has the strictly larger score.
C9_ScoreStrict ==
    last.op = "search"
      => (/\ \A i \in 1..Len(last.result) :
                /\ RoundedScore(last.result[i])
                /\ last.result[i].score = <<1, 1>> <=> last.result[i].distance[1] = 0
          /\ \A i, j \in 1..Len(last.result) :
                RatLt(last.result[i].distance, last.result[j].distance)
                  => RatLt(last.result[j].score, last.result[i].score))

\* what search reported of a hit of retrieve
BaseOf(h) ==
    [rank |-> h.rank, distance |-> h.distance, score |-> h.score,
     text |-> h.text, metadata |-> h.metadata]

\* every result is one of base_results and within max_distance
AmongGated(results, base_results, max_distance) ==
    \A i \in 1..Len(results) :
        /\ RatLe(results[i].distance, max_distance)
        /\ \E j \in 1..Len(base_results) : base_results[j] = BaseOf(results[i])

\* the hits of the store's search(embedding, 3k)
PlainSearch(call) ==
    Search(index, metadata, chunk_texts, ef_search, call.query_data.embedding,
           3 * call.k).hits

\* C10: retrieve(query, k, max_distance) returns only hits that are among
\* those of the store's plain search(embedding, 3k) and whose distance is
\* <= max_distance.
C10_OnlyGatedSearchHits ==
    last.op = "retrieve"
      => AmongGated(last.result, PlainSearch(last), last.max_distance)

SomeBeyond(base_results, max_distance) ==
    \E j \in 1..Len(base_results) : ~RatLe(base_results[j].distance, max_distance)

\* retrieve returned a hit and the gate held another back
C10_GateHeldBack ==
    /\ last.op = "retrieve"
    /\ last.result # <<>>
    /\ SomeBeyond(PlainSearch(last), last.max_distance)

\* the keys of metadata_filters on which meta has the filter's value
MatchedKeys(meta, metadata_filters) ==
    { key \in DOMAIN metadata_filters :
        key \in DOMAIN meta /\ meta[key] = metadata_filters[key] }

\* C11: every hit of retrieve has meta_score = (filter keys whose value is
\* the hit's metadata value) / (filter keys), which is in [0, 1]; without
\* metadata_filters, or with empty ones, meta_score is 0.0.
C11_MetaScore ==
    last.op = "retrieve"
      => \A i \in 1..Len(last.result) :
            IF \/ IsNone(last.query_data.metadata_filters)
               \/ DOMAIN last.query_data.metadata_filters = {}
            THEN last.result[i].meta_score = <<0, 1>>
            ELSE /\ RatEq(last.result[i].meta_score,
                          <<Cardinality(MatchedKeys(last.result[i].metadata,
                                                    last.query_data.metadata_filters)),
                            Cardinality(DOMAIN last.query_data.metadata_filters)>>)
                 /\ RatLe(<<0, 1>>, last.result[i].meta_score)
                 /\ RatLe(last.result[i].meta_score, <<1, 1>>)

\* retrieve returned a hit that matches one of two filter keys
C11_HalfMatched ==
    /\ last.op = "retrieve"
    /\ \E i \in 1..Len(last.result) : last.result[i].meta_score = <<1, 2>>

\* the keys that are true in the query's intent and in the 'intent' sub-map
\* of meta
SharedIntents(meta, query_intent) ==
    { key \in DOMAIN query_intent :
        /\ query_intent[key] = TRUE
        /\ "intent" \in DOMAIN meta
        /\ key \in DOMAIN meta.intent
        /\ meta.intent[key] = TRUE }

\* C12: every hit of retrieve has as intent_score the number of keys of
\* query_intent that are true in the query and true in the hit's metadata
\* 'intent' sub-map; 0 when query_intent is absent or empty or the hit has
\* no 'intent' sub-map.
C12_IntentScore ==
    last.op = "retrieve"
      => \A i \in 1..Len(last.result) :
            /\ last.result[i].intent_score
                 = (IF IsNone(last.query_data.query_intent) THEN 0
                    ELSE Cardinality(SharedIntents(last.result[i].metadata,
                                                   last.query_data.query_intent)))
            /\ (\/ IsNone(last.query_data.query_intent)
                \/ DOMAIN last.query_data.query_intent = {}
                \/ "intent" \notin DOMAIN last.result[i].metadata)
                 => last.result[i].intent_score = 0

\* retrieve returned a hit with a shared intent and one without the sub-map
C12_OneShared ==
    /\ last.op = "retrieve"
    /\ \E i, j \in 1..Len(last.result) :
          /\ last.result[i].intent_score = 1
          /\ "intent" \notin DOMAIN last.result[j].metadata

\* C13: every hit of retrieve has final_score = 0.7 * score
\* + 0.2 * intent_score + 0.1 * meta_score, intent_score being the raw
\* count.
C13_FinalScore ==
    last.op = "retrieve"
      => \A i \in 1..Len(last.result) :
            RatEq(last.result[i].final_score,
                  <<7 * last.result[i].score[1] * last.result[i].meta_score[2]
                      + 2 * last.result[i].intent_score
                          * last.result[i].score[2] * last.result[i].meta_score[2]
                      + last.result[i].meta_score[1] * last.result[i].score[2],
                    10 * last.result[i].score[2] * last.result[i].meta_score[2]>>)

\* a hit with a shared intent stands before a hit of strictly higher score
C13_IntentOutranks ==
    /\ last.op = "retrieve"
    /\ Len(last.result) = 2
    /\ last.result[1].intent_score > last.result[2].intent_score
    /\ RatLt(last.result[1].score, last.result[2].score)

\* 0.7 * score + 0.2 * shared + 0.1 * matched / keys, for keys >= 1
WeightedSum(score, shared, matched, keys) ==
    <<7 * score[1] * keys + 2 * shared * score[2] * keys + matched * score[2],
      10 * score[2] * keys>>

\* the final_score that the query gives a hit b of search
ExpectedFinal(b, query_data) ==
    WeightedSum(b.score,
                IF IsNone(query_data.query_intent) THEN 0
                ELSE Cardinality(SharedIntents(b.metadata, query_data.query_intent)),
                IF IsNone(query_data.metadata_filters) THEN 0
                ELSE Cardinality(MatchedKeys(b.metadata, query_data.metadata_filters)),
                IF IsNone(query_data.metadata_filters) THEN 1
                ELSE Max(1, Cardinality(DOMAIN query_data.metadata_filters)))

\* every hit of base_results within max_distance is among results, or
\* results are k hits none of which it would outrank
HighestOf(results, base_results, query_data, k, max_distance) ==
    \A j \in 1..Len(base_results) :
        RatLe(base_results[j].distance, max_distance)
          => \/ \E i \in 1..Len(results) : BaseOf(results[i]) = base_results[j]
             \/ /\ Len(results) = k
                /\ \A i \in 1..Len(results) :
                      RatLe(ExpectedFinal(base_results[j], query_data),
                            results[i].final_score)

\* C14: the list retrieve(query, k, max_distance) returns has at most k
\* hits, no hit has a lower final_score than a later one, and the hits are
\* the k of highest final_score among the candidates within max_distance.
C14_TopKByFinalScore ==
    last.op = "retrieve"
      => (/\ Len(last.result) <= last.k
          /\ \A i \in 1..Len(last.result) : \A j \in (i + 1)..Len(last.result) :
                RatLe(last.result[j].final_score, last.result[i].final_score)
          /\ HighestOf(last.result, PlainSearch(last), last.query_data, last.k,
                       last.max_distance))

\* retrieve returned k hits, the first of which search had not ranked first
C14_Reordered ==
    /\ last.op = "retrieve"
    /\ Len(last.result) = last.k
    /\ last.result[1].rank > 1

\* how many of base_results are within max_distance
NumberWithin(base_results, max_distance) ==
    Cardinality({ j \in 1..Len(base_results) :
                    RatLe(base_results[j].distance, max_distance) })

\* C15: metadata filters and intent never eliminate a candidate: retrieve
\* returns min(k, number of search(embedding, 3k) hits with distance
\* <= max_distance) hits, whatever metadata_filters and query_intent are.
C15_FiltersAdvisory ==
    last.op = "retrieve"
      => Len(last.result)
           = Min(last.k, NumberWithin(PlainSearch(last), last.max_distance))

\* retrieve, given filters and an intent, returned a hit that matches
\* neither
C15_UnmatchedReturned ==
    /\ last.op = "retrieve"
    /\ ~IsNone(last.query_data.metadata_filters)
    /\ DOMAIN last.query_data.metadata_filters # {}
    /\ ~IsNone(last.query_data.query_intent)
    /\ \E i \in 1..Len(last.result) :
          /\ last.result[i].meta_score[1] = 0
          /\ last.result[i].intent_score = 0

\* the store's search(embedding, 3k) returns
PlainSearchReturns(call) ==
    Search(index, metadata, chunk_texts, ef_search, call.query_data.embedding,
           3 * call.k).raised = None

\* the call had no results to give
NothingToReturn ==
    \/ last.op = "search" /\ ntotal(index) = 0
    \/ /\ last.op = "find_similar_by_id"
       /\ \A i \in 1..Len(metadata) : Get(metadata[i], "chunk_id") # last.chunk_id
    \/ /\ last.op = "retrieve"
       /\ \/ ntotal(index) = 0
          \/ /\ PlainSearchReturns(last)
             /\ NumberWithin(PlainSearch(last), last.max_distance) = 0

RecordMatches(i, metadata_filters) ==
    /\ i < Len(metadata)
    /\ \/ IsNone(metadata_filters)
       \/ MatchedKeys(metadata[i + 1], metadata_filters) = DOMAIN metadata_filters

\* the ids of the records that match
MatchingIds(metadata_filters) ==
    { i \in 0..(ntotal(index) - 1) : RecordMatches(i, metadata_filters) }

\* hits are the records ids, which are distinct, match, stand in ascending
\* exact distance from q and are no farther than any other matching record
NearestMatching(hits, ids, q, metadata_filters) ==
    /\ \A i \in 1..Len(hits) : \A j \in (i + 1)..Len(hits) : ids[i] # ids[j]
    /\ \A i \in 1..Len(hits) :
          /\ ids[i] \in MatchingIds(metadata_filters)
          /\ ids[i] < Len(chunk_texts)
          /\ hits[i].metadata = metadata[ids[i] + 1]
          /\ hits[i].text = chunk_texts[ids[i] + 1]
    /\ \A i \in 1..Len(hits) : \A j \in (i + 1)..Len(hits) :
          RatLe(L2sqr(index.vecs[ids[i] + 1], q), L2sqr(index.vecs[ids[j] + 1], q))
    /\ \A i \in 1..Len(hits) :
          \A other \in MatchingIds(metadata_filters) \ { ids[j] : j \in 1..Len(hits) } :
             RatLe(L2sqr(index.vecs[ids[i] + 1], q), L2sqr(index.vecs[other + 1], q))

\* C17: search_with_metadata(q, filters, k) returns only records whose
\* metadata has the filter's value under every filter key: the min(k,
\* number of matching records) matching records nearest to q, in ascending
\* distance; the empty list when no record matches.
C17_NearestMatching ==
    last.op = "search_with_metadata"
      => /\ last.raised = None
         /\ Len(last.result)
              = Min(last.k, Cardinality(MatchingIds(last.metadata_filters)))
         /\ \A i \in 1..Len(last.result) : \A j \in (i + 1)..Len(last.result) :
               RatLe(last.result[i].distance, last.result[j].distance)
         /\ \E ids \in [1..Len(last.result) -> 0..(ntotal(index) - 1)] :
               NearestMatching(last.result, ids, last.query_embedding,
                               last.metadata_filters)

\* the hits of search(q, k) for every k that reaches all the records
AllHits(q) ==
    Search(index, metadata, chunk_texts, ef_search, q, ntotal(index)).hits

\* a hit of the one search and a hit of the other that are the same record
\* report the same distance and the same score
SameReports(hits, others) ==
    \A i \in 1..Len(hits) : \A j \in 1..Len(others) :
        (hits[i].text = others[j].text /\ hits[i].metadata = others[j].metadata)
          => /\ hits[i].distance = others[j].distance
             /\ hits[i].score = others[j].score

\* C18: for the same query and the same record, search_with_metadata
\* reports the distance (squared Euclidean) and the score that search
\* reports.
C18_SameMetric ==
    last.op = "search_with_metadata"
      => SameReports(last.result, AllHits(last.query_embedding))

\* search(query_embedding, 2k) of a search_with_intent call
IntentBase(call) ==
    Search(index, metadata, chunk_texts, ef_search, call.query_embedding, 2 * call.k)

\* hit a does not come after hit b by (intent_score, score) descending,
\* given their intent_scores
NotAfter(a_intent, a_score, b_intent, b_score) ==
    \/ a_intent > b_intent
    \/ a_intent = b_intent /\ RatLe(b_score, a_score)

\* results are the first k of base_hits, each with its intent_score, by
\* (intent_score, score) descending
FirstByIntent(results, base_hits, query_intent, k) ==
    /\ Len(results) = Min(k, Len(base_hits))
    /\ \A i \in 1..Len(results) :
          /\ \E j \in 1..Len(base_hits) : base_hits[j] = BaseOf(results[i])
          /\ results[i].intent_score
               = Cardinality(SharedIntents(results[i].metadata, query_intent))
    /\ \A i \in 1..Len(results) : \A j \in (i + 1)..Len(results) :
          /\ results[i].rank # results[j].rank
          /\ NotAfter(results[i].intent_score, results[i].score,
                      results[j].intent_score, results[j].score)
    /\ \A j \in 1..Len(base_hits) :
          \/ \E i \in 1..Len(results) : base_hits[j] = BaseOf(results[i])
          \/ \A i \in 1..Len(results) :
                NotAfter(results[i].intent_score, results[i].score,
                         Cardinality(SharedIntents(base_hits[j].metadata, query_intent)),
                         base_hits[j].score)

\* C19: search_with_intent(q, intent, k) takes the hits of search(q, 2k),
\* gives each as intent_score the number of intent keys true in the query
\* and in the hit's metadata 'intent' sub-map, orders them by
\* (intent_score, score) descending and returns the first k.
C19_FirstByIntent ==
    (/\ last.op = "search_with_intent"
     /\ ~IsNone(last.query_intent)
     /\ IntentBase(last).raised = None)
      => /\ last.raised = None
         /\ FirstByIntent(last.result, IntentBase(last).hits, last.query_intent, last.k)

\* the hit with the shared intent stands before a hit of higher score
C19_IntentDominates ==
    /\ last.op = "search_with_intent"
    /\ Len(last.result) = 2
    /\ last.result[1].intent_score > last.result[2].intent_score
    /\ RatLt(last.result[1].score, last.result[2].score)

\* C20: in every hit list that search, search_with_threshold,
\* search_with_metadata, search_with_intent and retrieve return, the hit at
\* 1-based position i has rank == i.
C20_RankIsPosition ==
    last.op \in {"search", "search_with_threshold", "search_with_metadata",
                 "search_with_intent", "retrieve"}
      => \A i \in 1..Len(last.result) : last.result[i].rank = i

\* what search(query_embedding, k) returns for the arguments of the call
SearchOf(call) ==
    Search(index, metadata, chunk_texts, ef_search, call.query_embedding, call.k)

\* results holds the hits of base_hits within max_distance, all of them and
\* nothing else, in the order of base_hits (whose ranks ascend)
KeptInOrder(results, base_hits, max_distance) ==
    /\ \A i \in 1..Len(results) :
          /\ RatLe(results[i].distance, max_distance)
          /\ \E j \in 1..Len(base_hits) : base_hits[j] = results[i]
    /\ \A i \in 1..Len(results) : \A j \in (i + 1)..Len(results) :
          results[i].rank < results[j].rank
    /\ \A j \in 1..Len(base_hits) :
          RatLe(base_hits[j].distance, max_distance)
            => \E i \in 1..Len(results) : results[i] = base_hits[j]

\* C21: search_with_threshold(q, k, max_distance) returns exactly the hits
\* of search(q, k) whose distance is <= max_distance, in the same relative
\* order; no returned hit has a distance greater than max_distance.
C21_ThresholdKeepsWithin ==
    last.op = "search_with_threshold"
      => (/\ last.raised = SearchOf(last).raised
          /\ KeptInOrder(last.result, SearchOf(last).hits, last.max_distance))

\* the threshold kept a hit at exactly max_distance and dropped a farther one
C21_KeptAtThreshold ==
    /\ last.op = "search_with_threshold"
    /\ Len(last.result) = 1
    /\ last.result[1].distance = last.max_distance
    /\ Len(SearchOf(last).hits) = 2

\* what search returns for the vector stored under id i as the query
SearchFrom(i, k) ==
    Search(index, metadata, chunk_texts, ef_search, Reconstruct(index, i), k)

\* C22: find_similar_by_id(id, k), for an id that exists (ids being the
\* dense 0-based insertion positions of the graph and of the arrays),
\* returns the result of search with the vector stored under that id, so
\* the record with that id is among the hits at distance 0 when k >= 1.
C22_QueryIsStoredVector ==
    (last.op = "find_similar_by_id" /\ last.chunk_id \in 0..(ntotal(index) - 1))
      => (/\ last.raised = None
          /\ last.result = SearchFrom(last.chunk_id, last.k).hits
          /\ \E i \in 1..Len(last.result) :
                HitOfRecord(last.result[i], Reconstruct(index, last.chunk_id),
                            last.chunk_id))

\* what search returns on the instance that saved, as it was when it saved
SavedSearch(q, k) ==
    Search(saved.index, saved.metadata, saved.chunk_texts, saved.ef_search, q, k)

\* search returns on this instance what it returned on the one that saved
SameSearch(a, b) == a.raised = b.raised /\ a.hits = b.hits

\* C23: after save_index on a store S and load_index on a freshly built
\* store T, T.metadata == S.metadata, T.chunk_texts == S.chunk_texts, T has
\* as many records as S, and for every query q and every k T.search(q, k)
\* returns the hits of S.search(q, k): the same records, distances and
\* scores in the same order.
C23_RoundTrip ==
    (last.op = "load_index" /\ last.raised = None)
      => (/\ metadata = saved.metadata
          /\ chunk_texts = saved.chunk_texts
          /\ ntotal(index) = ntotal(saved.index)
          /\ \A q \in Queries, k \in Ks :
                SameSearch(Search(index, metadata, chunk_texts, ef_search, q, k),
                           SavedSearch(q, k)))

\* a store of two records was loaded into an instance built with other
\* arguments than the one that saved it
C23_LoadedElsewhere ==
    /\ last.op = "load_index"
    /\ last.raised = None
    /\ dimension # saved.dimension
    /\ Len(SavedSearch(PersistQuery, MaxK).hits) = 2

\* the four arguments an instance is constructed with
ConstructionParams == { "dimension", "M", "ef_construction", "ef_search" }

\* the value of parameter p among the fields (dim, m, efc, efs)
Param(p, dim, m, efc, efs) ==
    CASE p = "dimension"       -> dim
      [] p = "M"               -> m
      [] p = "ef_construction" -> efc
      [] OTHER                 -> efs

\* the parameters the sidecar of `files` carries, as json.load gives them
SidecarParams(files) ==
    IF "hnsw_params" \in DOMAIN files.metadata_file[1].object
    THEN JsonLoad(files.metadata_file[1].object.hnsw_params)
    ELSE EmptyDict

\* the sidecar is the one the last save_index wrote
AsSaved(files) ==
    files.metadata_file = << JsonDump(saved.metadata, saved.chunk_texts, saved.M,
                                      saved.ef_construction, saved.ef_search) >>

\* C24: the sidecar that save_index writes carries the four construction
\* parameters (dimension, M, ef_construction, ef_search); after load_index
\* on an instance built with other arguments each of the four parameters of
\* the loading instance is the saving instance's, and a parameter missing
\* from the sidecar keeps the value the loading instance was built with.
C24_ParametersRestored ==
    [][ /\ last'.op = "save_index"
           => \A p \in ConstructionParams :
                 /\ p \in DOMAIN SidecarParams(disk')
                 /\ SidecarParams(disk')[p]
                      = Param(p, dimension, M, ef_construction, ef_search)
        /\ (last'.op = "load_index" /\ last'.raised = None)
           => \A p \in ConstructionParams :
                 /\ AsSaved(disk)
                      => Param(p, dimension', M', ef_construction', ef_search')
                           = Param(p, saved.dimension, saved.M, saved.ef_construction,
                                   saved.ef_search)
                 /\ p \notin DOMAIN SidecarParams(disk)
                      => Param(p, dimension', M', ef_construction', ef_search')
                           = Param(p, dimension, M, ef_construction, ef_search)
      ]_vars

\* C26: a load_index call that fails because the JSON sidecar is missing
\* or malformed leaves the instance unchanged: index, metadata, chunk_texts
\* and parameters are those before the call, so that
\* len(metadata) == len(chunk_texts) == index.ntotal still holds.
C26_FailedLoadLeavesInstance ==
    [][ (/\ last'.op = "load_index"
         /\ last'.raised \in { "FileNotFoundError", "JSONDecodeError" })
          => (/\ index' = index
              /\ metadata' = metadata
              /\ chunk_texts' = chunk_texts
              /\ dimension' = dimension
              /\ M' = M
              /\ ef_construction' = ef_construction
              /\ ef_search' = ef_search
              /\ (Len(metadata) = Len(chunk_texts) /\ Len(chunk_texts) = ntotal(index))
                   => (/\ Len(metadata') = Len(chunk_texts')
                       /\ Len(chunk_texts') = ntotal(index'))) ]_vars

\* the suffixes load_documents has a reader for
Supported == { ".pdf", ".docx", ".doc", ".md", ".txt", ".json" }

\* the files of the folder that are supported and that their reader reads
\* without an exception, in the folder's order
RECURSIVE ReadFiles(_)
ReadFiles(folder) ==
    IF folder = <<>> THEN <<>>
    ELSE (IF /\ Head(folder).is_file
             /\ Lower(Head(folder).suffix) \in Supported
             /\ ~Head(folder).raises
          THEN <<Head(folder)>> ELSE <<>>)
         \o ReadFiles(Tail(folder))

\* C25: during load_documents a file that is unsupported or whose loading
\* fails is skipped: it contributes no (filename, text) entry to the
\* returned list, and every other file of the folder is loaded and returned.
C25_FailedSkipped ==
    last.op = "load_documents"
      => (/\ last.raised = None
          /\ Len(last.result) = Len(ReadFiles(last.folder))
          /\ \A i \in 1..Len(last.result) :
                last.result[i] = << ReadFiles(last.folder)[i].name,
                                    ReadFiles(last.folder)[i].pages >>)

\* C27: if the graph query raises during search or batch_search (as on a
\* query of the wrong dimension), the index's efSearch is still restored:
\* after the failed call it is the value it had before the call.
C27_RestoredAfterFailure ==
    [][ (last'.op \in { "search", "batch_search" } /\ last'.raised # None)
          => index'.efSearch = index.efSearch ]_vars

\* an add_embeddings call has extended the graph and has not yet extended
\* both arrays
AddInProgress == pc[Adder] \in { "line_33", "line_34" }

\* the hits are those of distinct records with ids below `count`, each with
\* the metadata and the text stored under its id
HitsOfFirst(hits, q, count) ==
    \E ids \in [1..Len(hits) -> 0..(count - 1)] :
        /\ \A i \in 1..Len(hits) : \A j \in (i + 1)..Len(hits) : ids[i] # ids[j]
        /\ \A i \in 1..Len(hits) : HitOfRecord(hits[i], q, ids[i])

\* C28: a search that runs while an add_embeddings on the same instance is
\* in progress (the graph extended, metadata and chunk_texts not both
\* extended yet) never raises and never returns a hit whose text or metadata
\* is that of another record than the matched vector: it returns only
\* records that were fully added.
C28_SearchDuringAdd ==
    (last.op = "search" /\ AddInProgress)
      => (/\ last.raised = None
          /\ HitsOfFirst(last.result, last.query_embedding,
                         ntotal(index) - Len(frame[Adder].embeddings)))

=============================================================================
